---- MODULE Spec2Model ----
(***************************************************************************)
(* A model of epub_extractor (ytyng/epub-extractor): the page resolver,    *)
(* the two table-of-contents resolvers with their shared cleaning          *)
(* algorithm, the get_toc_table policy, the image extraction loop and the  *)
(* command line procedures that own the temporary extraction directory.    *)
(***************************************************************************)
EXTENDS Integers, Sequences, FiniteSets, TLC

(***************************************************************************)
(* Bounds of the model.                                                    *)
(***************************************************************************)
\* longest raw TOC entry list given to the cleaning algorithm
MaxToc == 3
\* largest total page count given to the cleaning algorithm
MaxPages == 3
\* longest spine of a package document
MaxSpine == 2
\* most navPoint elements of an NCX, and most links of a Navigation Document
MaxNav == 2
\* longest XML text given to xml_repair
MaxXml == 5

(***************************************************************************)
(* The cleaning algorithm shared by TocNcx.cleaned_toc_ncx_data and        *)
(* NavigationXml.cleaned_navigation_xml_data.  A raw entry is the          *)
(* OrderedDict [page_xml, start_page, section_title]; a cleaned entry is   *)
(* the same dict with end_page added.                                      *)
(***************************************************************************)

\* the mutant: an unstable sort, o inserted before the entries of equal key
InsertByStartUnstable(s, o) ==
    LET before == {i \in 1..Len(s) : s[i].start_page < o.start_page}
        n == Cardinality(before)
    IN  SubSeq(s, 1, n) \o <<o>> \o SubSeq(s, n + 1, Len(s))

\* list.insert of o behind every element with key <= o's key: one step of the
\* stable sort sorted(..., key=lambda x: x['start_page'])
InsertByStart(s, o) ==
    LET before == {i \in 1..Len(s) : s[i].start_page <= o.start_page}
        n == Cardinality(before)
    IN  SubSeq(s, 1, n) \o <<o>> \o SubSeq(s, n + 1, Len(s))

RECURSIVE SortedByStartPage(_)
SortedByStartPage(data) ==
    IF data = <<>> THEN <<>>
    ELSE InsertByStart(SortedByStartPage(SubSeq(data, 1, Len(data) - 1)),
                       data[Len(data)])

\* navs[-1]['end_page'] = v
SetLastEnd(navs, v) ==
    [navs EXCEPT ![Len(navs)] =
        [page_xml |-> navs[Len(navs)].page_xml,
         start_page |-> navs[Len(navs)].start_page,
         section_title |-> navs[Len(navs)].section_title,
         end_page |-> v]]

\* a dict that has no end_page key yet is modelled with end_page = NoEnd
NoEnd == -1

\* the mutant: the previous range closed at the next start page itself
RECURSIVE CleanLoopOffByOne(_, _, _)
CleanLoopOffByOne(sorted, attended, navs) ==
    IF sorted = <<>> THEN navs
    ELSE LET o == Head(sorted) IN
         IF o.start_page \in attended
         THEN CleanLoopOffByOne(Tail(sorted), attended, navs)
         ELSE CleanLoopOffByOne(
                Tail(sorted),
                attended \cup {o.start_page},
                (IF navs # <<>> THEN SetLastEnd(navs, o.start_page)
                 ELSE navs)
                \o <<[page_xml |-> o.page_xml, start_page |-> o.start_page,
                      section_title |-> o.section_title, end_page |-> NoEnd]>>)

\* the body of the for loop: one sorted entry o against (attended, navs)
RECURSIVE CleanLoop(_, _, _)
CleanLoop(sorted, attended, navs) ==
    IF sorted = <<>> THEN navs
    ELSE LET o == Head(sorted) IN
         IF o.start_page \in attended
         THEN CleanLoop(Tail(sorted), attended, navs)
         ELSE CleanLoop(
                Tail(sorted),
                attended \cup {o.start_page},
                (IF navs # <<>> THEN SetLastEnd(navs, o.start_page - 1)
                 ELSE navs)
                \o <<[page_xml |-> o.page_xml, start_page |-> o.start_page,
                      section_title |-> o.section_title, end_page |-> NoEnd]>>)

\* if navs: navs[-1]['end_page'] = self.ee.last_page_number
CloseLast(navs, last_page_number) ==
    IF navs # <<>> THEN SetLastEnd(navs, last_page_number) ELSE navs

\* the mutant: the final end_page taken from the number of raw entries
CleanedDataLenBug(data, last_page_number) ==
    CloseLast(CleanLoop(SortedByStartPage(data), {}, <<>>), Len(data))

\* cleaned_toc_ncx_data / cleaned_navigation_xml_data
CleanedData(data, last_page_number) ==
    CloseLast(CleanLoop(SortedByStartPage(data), {}, <<>>), last_page_number)

\* a cleaned range read back as a raw entry (its start_page and title)
AsRaw(navs) ==
    [i \in 1..Len(navs) |->
        [page_xml |-> navs[i].page_xml, start_page |-> navs[i].start_page,
         section_title |-> navs[i].section_title]]

(***************************************************************************)
(* The package document: manifest items and spine.  A path is the record   *)
(* [dir, name, ext]; a media type is the pair <<type, subtype>>.  An       *)
(* attribute that is absent (attrib.get() gives None) or empty is NoVal    *)
(* for a string and NoPath for a path: both are falsy in the code.         *)
(***************************************************************************)
NoVal == "<none>"
NoExc == "<no exception>"

Path(d, n, e) == [dir |-> d, name |-> n, ext |-> e]
NoPath == Path("", "", "")

\* os.path.basename
Basename(p) == [p EXCEPT !.dir = ""]

\* an image or svg:image element with its three path attributes
ImageEl(xh, sr, xs) == [xlink_href |-> xh, src |-> sr, xlink_src |-> xs]

Item(i, h, mt, pr, im) ==
    [id |-> i, href |-> h, media_type |-> mt, properties |-> pr, images |-> im]

\* the manifest items the spine can refer to: two image items, and three
\* page documents holding one image, no image, and an image without a path
PageItems ==
    << Item("i1", Path("img", "a", "jpg"), <<"image", "jpeg">>, NoVal, <<>>),
       Item("i2", Path("img", "b", "png"), <<"image", "png">>, NoVal, <<>>),
       Item("p1", Path("x", "p", "xhtml"), <<"application", "xhtml+xml">>,
            "svg", <<ImageEl(Path("..", "c", "jpg"), NoPath, NoPath)>>),
       Item("p0", Path("y", "p", "xhtml"), <<"application", "xhtml+xml">>,
            NoVal, <<>>),
       Item("pa", Path("x", "q", "xhtml"), <<"application", "xhtml+xml">>,
            NoVal, <<ImageEl(NoPath, NoPath, NoPath)>>) >>

NcxItem ==
    Item("ncx", Path("", "toc", "ncx"), <<"application", "x-dtbncx+xml">>,
         NoVal, <<>>)
NavItem ==
    Item("nav", Path("", "nav", "xhtml"), <<"application", "xhtml+xml">>,
         "nav", <<>>)

\* the idref values of a spine itemref: a page item, no idref attribute, or
\* an id the manifest does not hold
IdRefs == {PageItems[i].id : i \in 1..Len(PageItems)} \cup {NoVal, "zz"}

\* the item elements of the manifest, in document order
ManifestItems(d) ==
    PageItems
      \o (IF d.ncx = "absent" THEN <<>> ELSE <<NcxItem>>)
      \o (IF d.nav = "absent" THEN <<>> ELSE <<NavItem>>)

\* what self.content_xml_etree raises: content_xml_path or the parse
ContentXmlEtreeExc(d) ==
    CASE d.pkg = "notfound" -> "ContentXmlNotFound"
      [] d.pkg = "unparsable" -> "ParseError"
      [] OTHER -> NoExc

\* what self.content_xml_etree._root raises: the repaired document is an
\* Element (ElementTree.fromstring), which has no _root
ContentXmlRootExc(d) ==
    CASE d.pkg = "notfound" -> "ContentXmlNotFound"
      [] d.pkg = "unparsable" -> "ParseError"
      [] d.pkg = "repaired" -> "AttributeError"
      [] OTHER -> NoExc

\* items_dict: id -> item, a later item of the same id replacing an earlier
RECURSIVE ItemsDictOf(_)
ItemsDictOf(items) ==
    IF items = <<>> THEN <<>>
    ELSE LET rest == ItemsDictOf(SubSeq(items, 1, Len(items) - 1))
             it == items[Len(items)]
         IN  [k \in DOMAIN rest \cup {it.id} |->
                 IF k = it.id THEN it ELSE rest[k]]

items_dict(d) == ItemsDictOf(ManifestItems(d))

(***************************************************************************)
(* Page resolution.  itemrefs is a cached generator: pos counts the        *)
(* itemrefs it has yielded so far, and it is never restarted.              *)
(***************************************************************************)

\* the mutant: an idref already seen is not yielded again
RECURSIVE GetImagePagesDedup(_, _, _, _)
GetImagePagesDedup(items, spine, pos, acc) ==
    IF pos >= Len(spine) THEN [pos |-> pos, pages |-> acc, exc |-> NoExc]
    ELSE LET idref == spine[pos + 1] IN
         IF idref = NoVal
         THEN [pos |-> pos + 1, pages |-> <<>>, exc |-> "IdRefNotFound"]
         ELSE IF idref \notin DOMAIN items
         THEN [pos |-> pos + 1, pages |-> <<>>, exc |-> "ItemNotFound"]
         ELSE IF \E j \in 1..Len(acc) : acc[j].id = idref
         THEN GetImagePagesDedup(items, spine, pos + 1, acc)
         ELSE GetImagePagesDedup(items, spine, pos + 1,
                                 Append(acc, items[idref]))

\* list(self._get_image_pages()) from generator position pos
RECURSIVE GetImagePages(_, _, _, _)
GetImagePages(items, spine, pos, acc) ==
    IF pos >= Len(spine) THEN [pos |-> pos, pages |-> acc, exc |-> NoExc]
    ELSE LET idref == spine[pos + 1] IN
         IF idref = NoVal
         THEN [pos |-> pos + 1, pages |-> <<>>, exc |-> "IdRefNotFound"]
         ELSE IF idref \notin DOMAIN items
         THEN [pos |-> pos + 1, pages |-> <<>>, exc |-> "ItemNotFound"]
         ELSE GetImagePages(items, spine, pos + 1, Append(acc, items[idref]))

\* The lazily computed part of a session: c.pos the position of the
\* itemrefs generator, c.cached whether image_pages is cached, c.pages the
\* cached list.  Each accessor gives [c, exc, ...]: the session afterwards,
\* and the exception raised (NoExc when it returned).
FreshCache == [pos |-> 0, cached |-> FALSE, pages |-> <<>>]

\* image_pages takes the list r the generator gave, and caches it unless
\* the generator raised
ImagePagesFrom(c, r) ==
    IF r.exc # NoExc
    THEN [c |-> [c EXCEPT !.pos = r.pos], exc |-> r.exc]
    ELSE [c |-> [pos |-> r.pos, cached |-> TRUE, pages |-> r.pages],
          exc |-> NoExc]

\* the cached_property image_pages
ImagePages(d, c) ==
    IF c.cached THEN [c |-> c, exc |-> NoExc]
    ELSE IF ContentXmlRootExc(d) # NoExc
    THEN [c |-> c, exc |-> ContentXmlRootExc(d)]
    ELSE ImagePagesFrom(c, GetImagePages(items_dict(d), d.spine, c.pos, <<>>))

\* enumerate(self.image_pages, start=1)
Enumerate(pages) == [i \in 1..Len(pages) |-> [i |-> i, page |-> pages[i]]]

(***************************************************************************)
(* The page lookup tables.  A dict is the sequence of its [k, v] items in  *)
(* insertion order: assigning to a key it holds keeps the key's place.     *)
(***************************************************************************)
DictHas(dct, key) == \E j \in 1..Len(dct) : dct[j].k = key

DictGet(dct, key, default) ==
    IF DictHas(dct, key)
    THEN dct[CHOOSE j \in 1..Len(dct) : dct[j].k = key].v
    ELSE default

DictSet(dct, key, val) ==
    IF DictHas(dct, key)
    THEN [j \in 1..Len(dct) |->
            IF dct[j].k = key THEN [k |-> key, v |-> val] ELSE dct[j]]
    ELSE Append(dct, [k |-> key, v |-> val])

\* _get_item_href_from_image_page: the href of the page's item, NoPath when
\* it raises ItemHrefNotFound
ItemHrefOf(page) == page.href

\* the dict comprehension of xml_path_page_number_dict over the enumeration
RECURSIVE PathDictFrom(_, _)
PathDictFrom(enum, dct) ==
    IF enum = <<>> THEN [dict |-> dct, exc |-> NoExc]
    ELSE IF ItemHrefOf(Head(enum).page) = NoPath
    THEN [dict |-> <<>>, exc |-> "ItemHrefNotFound"]
    ELSE PathDictFrom(Tail(enum),
                      DictSet(dct, ItemHrefOf(Head(enum).page), Head(enum).i))

xml_path_page_number_dict(pages) == PathDictFrom(Enumerate(pages), <<>>)

\* xml_path_page_number_dict_basename: the same items under their basenames
RECURSIVE BasenameDictFrom(_, _)
BasenameDictFrom(items, dct) ==
    IF items = <<>> THEN dct
    ELSE BasenameDictFrom(Tail(items),
                          DictSet(dct, Basename(Head(items).k), Head(items).v))

xml_path_page_number_dict_basename(pathdict) == BasenameDictFrom(pathdict, <<>>)

\* the mutant: the basename table is consulted first
LookupBasenameFirst(pathdict, page_xml_path, default) ==
    LET based == xml_path_page_number_dict_basename(pathdict) IN
    IF DictHas(based, Basename(page_xml_path))
    THEN DictGet(based, Basename(page_xml_path), default)
    ELSE DictGet(pathdict, page_xml_path, default)

\* the two lookups of get_page_number_from_page_xml_path
Lookup(pathdict, page_xml_path, default) ==
    IF DictHas(pathdict, page_xml_path)
    THEN DictGet(pathdict, page_xml_path, default)
    ELSE DictGet(xml_path_page_number_dict_basename(pathdict),
                 Basename(page_xml_path), default)

\* the lookup in the tables built from the page list access r gave
PageNumberWith(r, pd, page_xml_path, default) ==
    IF pd.exc # NoExc THEN [c |-> r.c, exc |-> pd.exc, number |-> 0]
    ELSE [c |-> r.c, exc |-> NoExc,
          number |-> Lookup(pd.dict, page_xml_path, default)]

PageNumberIn(r, page_xml_path, default) ==
    IF r.exc # NoExc THEN [c |-> r.c, exc |-> r.exc, number |-> 0]
    ELSE PageNumberWith(r, xml_path_page_number_dict(r.c.pages),
                        page_xml_path, default)

\* get_page_number_from_page_xml_path(page_xml_path, default)
get_page_number_from_page_xml_path(d, c, page_xml_path, default) ==
    PageNumberIn(ImagePages(d, c), page_xml_path, default)

\* len(self.image_pages), r the access to image_pages
LenOf(r) ==
    [c |-> r.c, exc |-> r.exc,
     number |-> IF r.exc = NoExc THEN Len(r.c.pages) ELSE 0]

\* the cached_property last_page_number
last_page_number(d, c) == LenOf(ImagePages(d, c))

(***************************************************************************)
(* The TOC resolvers.  d.ncx is "absent" (no manifest item), "strict"      *)
(* (the file parses), "repaired" (it parses after xml_repair),             *)
(* "unparsable" or "missing" (no such file); d.navpoints are its navPoint  *)
(* elements, content = NoPath for one without a content child and          *)
(* text = NoVal for one without a text child.  d.nav is "absent", "ok" or  *)
(* "missing"; d.links are its a elements, href = NoPath for one without.   *)
(***************************************************************************)

\* toc_ncx_path: the first item of NCX media type or of id ncx
toc_ncx_path(d) ==
    LET tree == ContentXmlEtreeExc(d)
        items == ManifestItems(d)
    IN  IF tree # NoExc THEN tree
        ELSE IF \E j \in 1..Len(items) :
                  \/ items[j].media_type = <<"application", "x-dtbncx+xml">>
                  \/ items[j].id = "ncx"
        THEN NoExc
        ELSE "TocNcxNotFound"

\* toc_ncx_etree and its _root, as toc_ncx_data asks for them
toc_ncx_root(d) ==
    LET path == toc_ncx_path(d) IN
    IF path # NoExc THEN path
    ELSE CASE d.ncx = "missing" -> "FileNotFoundError"
           [] d.ncx = "unparsable" -> "ParseError"
           [] d.ncx = "repaired" -> "AttributeError"
           [] OTHER -> NoExc

\* the generator of toc_ncx_data over the navPoint elements; NcxYield is
\* the rest of one round, r the page number lookup of its navPoint
RECURSIVE NcxGen(_, _, _, _)
RECURSIVE NcxYield(_, _, _, _)
NcxYield(d, nps, acc, r) ==
    IF r.exc # NoExc THEN [c |-> r.c, exc |-> r.exc, data |-> <<>>]
    ELSE IF Head(nps).text = NoVal
    THEN [c |-> r.c, exc |-> "AttributeError", data |-> <<>>]
    ELSE NcxGen(d, r.c, Tail(nps),
                Append(acc, [page_xml |-> Head(nps).content,
                             start_page |-> r.number,
                             section_title |-> Head(nps).text]))

NcxGen(d, c, nps, acc) ==
    IF nps = <<>> THEN [c |-> c, exc |-> NoExc, data |-> acc]
    ELSE IF Head(nps).content = NoPath
    THEN [c |-> c, exc |-> "AttributeError", data |-> <<>>]
    ELSE NcxYield(d, nps, acc,
                  get_page_number_from_page_xml_path(d, c, Head(nps).content, 1))

toc_ncx_data(d, c) ==
    IF toc_ncx_root(d) # NoExc
    THEN [c |-> c, exc |-> toc_ncx_root(d), data |-> <<>>]
    ELSE NcxGen(d, c, d.navpoints, <<>>)

\* the cleaning of raw data r = [c, exc, data], n the last_page_number
CleanedWith(r, n) ==
    IF n.exc # NoExc THEN [c |-> n.c, exc |-> n.exc, table |-> <<>>]
    ELSE [c |-> n.c, exc |-> NoExc, table |-> CleanedData(r.data, n.number)]

\* the cleaning of either resolver's raw data r = [c, exc, data]: an empty
\* list leaves navs empty and last_page_number unread
CleanedOf(d, r) ==
    IF r.exc # NoExc THEN [c |-> r.c, exc |-> r.exc, table |-> <<>>]
    ELSE IF r.data = <<>> THEN [c |-> r.c, exc |-> NoExc, table |-> <<>>]
    ELSE CleanedWith(r, last_page_number(d, r.c))

cleaned_toc_ncx_data(d, c) == CleanedOf(d, toc_ncx_data(d, c))

\* navigation_xml_path: the first item of id toc or of properties nav
navigation_xml_path(d) ==
    LET root == ContentXmlRootExc(d)
        items == ManifestItems(d)
    IN  IF root # NoExc THEN root
        ELSE IF \E j \in 1..Len(items) :
                  \/ items[j].id = "toc"
                  \/ items[j].properties = "nav"
        THEN NoExc
        ELSE "NavigationXmlNotFound"

\* navigation_xml_bs4: html.parser takes any text, only open() can fail
navigation_xml_bs4(d) ==
    LET path == navigation_xml_path(d) IN
    IF path # NoExc THEN path
    ELSE IF d.nav = "missing" THEN "FileNotFoundError"
    ELSE NoExc

\* the generator of navigation_xml_data over the a elements
RECURSIVE NavGen(_, _, _, _)
RECURSIVE NavYield(_, _, _, _)
NavYield(d, as, acc, r) ==
    IF r.exc # NoExc THEN [c |-> r.c, exc |-> r.exc, data |-> <<>>]
    ELSE NavGen(d, r.c, Tail(as),
                Append(acc, [page_xml |-> Head(as).href,
                             start_page |-> r.number,
                             section_title |-> Head(as).text]))

NavGen(d, c, as, acc) ==
    IF as = <<>> THEN [c |-> c, exc |-> NoExc, data |-> acc]
    ELSE IF Head(as).href = NoPath
    THEN [c |-> c, exc |-> "KeyError", data |-> <<>>]
    ELSE NavYield(d, as, acc,
                  get_page_number_from_page_xml_path(d, c, Head(as).href, 1))

navigation_xml_data(d, c) ==
    IF navigation_xml_bs4(d) # NoExc
    THEN [c |-> c, exc |-> navigation_xml_bs4(d), data |-> <<>>]
    ELSE NavGen(d, c, d.links, <<>>)

cleaned_navigation_xml_data(d, c) == CleanedOf(d, navigation_xml_data(d, c))

\* how get_toc_table ends on the second source it tries: r its cleaned
\* data, src its name and notfound the exception the try block passes on
SecondSource(r, src, notfound) ==
    IF r.exc = NoExc /\ r.table # <<>>
    THEN [c |-> r.c, exc |-> NoExc, source |-> src, table |-> r.table]
    ELSE IF r.exc \notin {NoExc, notfound}
    THEN [c |-> r.c, exc |-> r.exc, source |-> "raised", table |-> <<>>]
    ELSE [c |-> r.c, exc |-> NoExc, source |-> "None", table |-> <<>>]

\* get_toc_table after its first source gave r: its data is returned, its
\* exception leaves the try block, or the second source r2 decides
TwoSources(r, src, notfound, r2, src2, notfound2) ==
    IF r.exc = NoExc /\ r.table # <<>>
    THEN [c |-> r.c, exc |-> NoExc, source |-> src, table |-> r.table]
    ELSE IF r.exc \notin {NoExc, notfound}
    THEN [c |-> r.c, exc |-> r.exc, source |-> "raised", table |-> <<>>]
    ELSE SecondSource(r2, src2, notfound2)

AfterNav(d, v) ==
    TwoSources(v, "nav", "NavigationXmlNotFound",
               cleaned_toc_ncx_data(d, v.c), "ncx", "TocNcxNotFound")

AfterNcx(d, n) ==
    TwoSources(n, "ncx", "TocNcxNotFound",
               cleaned_navigation_xml_data(d, n.c), "nav",
               "NavigationXmlNotFound")

\* the mutant: the Navigation Document is tried first
GetTocTableNavFirst(d, c) == AfterNav(d, cleaned_navigation_xml_data(d, c))

\* get_toc_table: source says where the returned table comes from, "None"
\* when None is returned and "raised" when the call raised
get_toc_table(d, c) == AfterNcx(d, cleaned_toc_ncx_data(d, c))

(***************************************************************************)
(* Image resolution of one page.  A file of the extracted archive is       *)
(* [base, rel]: rel joined to the directory base below content_base_dir.   *)
(***************************************************************************)
File(b, r) == [base |-> b, rel |-> r]
NoFile == File("", NoPath)

\* get_image_path_of_image_element: the first of the three attributes set
ImageElPath(page, el) ==
    LET val == IF el.xlink_href # NoPath THEN el.xlink_href
               ELSE IF el.src # NoPath THEN el.src
               ELSE el.xlink_src
    IN  IF val = NoPath
        THEN [exc |-> "ImagePathAttrNotFound", file |-> NoFile]
        ELSE [exc |-> NoExc, file |-> File(page.href.dir, val)]

\* os.path.getsize of an image file of the archive
FileSize(f) == IF f.rel.ext = "png" THEN 2 ELSE 1

\* get_largest_image_element: sorted by size, reverse=True, is stable, so the
\* first element of the largest size is taken; getsize needs every file
LargestImage(page, images, files) ==
    IF \E j \in 1..Len(images) : ImageElPath(page, images[j]).exc # NoExc
    THEN [exc |-> "ImagePathAttrNotFound", file |-> NoFile]
    ELSE IF \E j \in 1..Len(images) :
               ImageElPath(page, images[j]).file \notin files
    THEN [exc |-> "FileNotFoundError", file |-> NoFile]
    ELSE LET size(j) == FileSize(ImageElPath(page, images[j]).file)
             best == CHOOSE j \in 1..Len(images) :
                        /\ \A k \in 1..Len(images) : size(k) <= size(j)
                        /\ \A k \in 1..(j - 1) : size(k) < size(j)
         IN  ImageElPath(page, images[best])

\* image_page.image_path, of an ImageElement (media type image/...) or of an
\* ImagePage (a page document)
image_path(page, files) ==
    IF page.media_type[1] = "image"
    THEN IF page.href = NoPath
         THEN [exc |-> "ItemHrefNotFound", file |-> NoFile]
         ELSE [exc |-> NoExc, file |-> File("", page.href)]
    ELSE IF page.href = NoPath
    THEN [exc |-> "ItemHrefNotFound", file |-> NoFile]
    ELSE IF Len(page.images) >= 2
    THEN LargestImage(page, page.images, files)
    ELSE IF Len(page.images) # 1
    THEN [exc |-> "InvalidImageLength", file |-> NoFile]
    ELSE ImageElPath(page, page.images[1])

\* image_page.is_png, f its image_path
is_png(page, f) ==
    IF page.media_type[1] = "image"
    THEN page.href.ext = "png" \/ page.media_type[2] = "png"
    ELSE f.rel.ext = "png"

(***************************************************************************)
(* extract_images.  fs is the file system: fs.files the image files of     *)
(* the extracted archive, fs.out_exists and fs.out_files the output        *)
(* directory.  An output file is [num, ext], num the digits of its name.   *)
(***************************************************************************)
RECURSIVE DecimalDigits(_)
DecimalDigits(n) ==
    IF n < 10 THEN <<n>> ELSE Append(DecimalDigits(n \div 10), n % 10)

RECURSIVE ZeroPad(_, _)
ZeroPad(ds, w) == IF Len(ds) >= w THEN ds ELSE ZeroPad(<<0>> \o ds, w)

\* the mutant: '{:04d}'
format_page_number_04d(page_number) == ZeroPad(DecimalDigits(page_number), 4)

\* '{:05d}'.format(page_number)
format_page_number(page_number) == ZeroPad(DecimalDigits(page_number), 5)

OutName(page_index, ext) == [num |-> format_page_number(page_index), ext |-> ext]

\* convert_to_jpeg(source, destination): im.save, then os.remove(source)
convert_to_jpeg(source, destination, fs) ==
    [fs EXCEPT !.out_files = @ \cup {destination}, !.files = @ \ {source}]

\* shutil.copy(source, destination)
shutil_copy(source, destination, fs) ==
    [fs EXCEPT !.out_files = @ \cup {destination}]

\* shutil.move(source, destination)
shutil_move(source, destination, fs) ==
    [fs EXCEPT !.out_files = @ \cup {destination}, !.files = @ \ {source}]

\* _move_jpeg_file once image_page.image_path gave src; opening, copying
\* or moving a source file that is not there raises FileNotFoundError
MoveResolved(page, page_index, convert_png, copy, fs, src) ==
    IF src.exc # NoExc THEN [exc |-> src.exc, fs |-> fs]
    ELSE IF src.file \notin fs.files
    THEN [exc |-> "FileNotFoundError", fs |-> fs]
    ELSE IF is_png(page, src.file) /\ convert_png
    THEN [exc |-> NoExc,
          fs |-> convert_to_jpeg(src.file, OutName(page_index, "jpg"), fs)]
    ELSE IF copy
    THEN [exc |-> NoExc,
          fs |-> shutil_copy(src.file,
                             OutName(page_index,
                                     IF is_png(page, src.file) THEN "png"
                                     ELSE "jpg"), fs)]
    ELSE [exc |-> NoExc,
          fs |-> shutil_move(src.file,
                             OutName(page_index,
                                     IF is_png(page, src.file) THEN "png"
                                     ELSE "jpg"), fs)]

\* _move_jpeg_file(image_page, output_dir, page_index, convert_png, copy)
move_jpeg_file(page, page_index, convert_png, copy, fs) ==
    MoveResolved(page, page_index, convert_png, copy, fs,
                 image_path(page, fs.files))

\* The for loop of extract_images: warned the page numbers skipped with a
\* warning, called the page numbers _move_jpeg_file was called for.
\* ExtractStep is the rest of one round, m what _move_jpeg_file gave.
RECURSIVE ExtractLoop(_, _, _, _, _, _)
RECURSIVE ExtractStep(_, _, _, _, _, _, _)

\* the mutant: the first page that cannot be resolved ends the loop quietly
ExtractStepStopAtSkip(enum, convert_png, copy, fs, warned, called, m) ==
    IF m.exc = "InvalidImageLength"
    THEN [exc |-> NoExc, fs |-> fs, warned |-> warned \cup {Head(enum).i},
          called |-> called \cup {Head(enum).i}]
    ELSE IF m.exc # NoExc
    THEN [exc |-> m.exc, fs |-> m.fs, warned |-> warned,
          called |-> called \cup {Head(enum).i}]
    ELSE ExtractLoop(Tail(enum), convert_png, copy, m.fs, warned,
                     called \cup {Head(enum).i})

ExtractStep(enum, convert_png, copy, fs, warned, called, m) ==
    IF m.exc = "InvalidImageLength"
    THEN ExtractLoop(Tail(enum), convert_png, copy, fs,
                     warned \cup {Head(enum).i}, called \cup {Head(enum).i})
    ELSE IF m.exc # NoExc
    THEN [exc |-> m.exc, fs |-> m.fs, warned |-> warned,
          called |-> called \cup {Head(enum).i}]
    ELSE ExtractLoop(Tail(enum), convert_png, copy, m.fs, warned,
                     called \cup {Head(enum).i})

ExtractLoop(enum, convert_png, copy, fs, warned, called) ==
    IF enum = <<>>
    THEN [exc |-> NoExc, fs |-> fs, warned |-> warned, called |-> called]
    ELSE ExtractStep(enum, convert_png, copy, fs, warned, called,
                     move_jpeg_file(Head(enum).page, Head(enum).i,
                                    convert_png, copy, fs))

\* extract_images from the loop on: r the access to image_pages, l the loop
ExtractDone(r, l) ==
    [c |-> r.c, exc |-> l.exc, fs |-> l.fs, warned |-> l.warned,
     called |-> l.called]

\* extract_images after os.mkdir(output_dir) left the file system as made
ExtractInto(made, convert_png, copy, r) ==
    IF r.exc # NoExc
    THEN [c |-> r.c, exc |-> r.exc, fs |-> made, warned |-> {}, called |-> {}]
    ELSE ExtractDone(r, ExtractLoop(Enumerate(r.c.pages), convert_png, copy,
                                    made, {}, {}))

\* shutil.rmtree(output_dir) if it exists, then os.mkdir(output_dir)
MakeOutputDir(fs) == [fs EXCEPT !.out_exists = TRUE, !.out_files = {}]

\* the mutant: an existing output directory is emptied whatever the option
ExtractImagesAlwaysDelete(d, c, fs, convert_png, delete_exists_dir, copy) ==
    ExtractInto(MakeOutputDir(fs), convert_png, copy, ImagePages(d, c))

\* extract_images(output_dir, convert_png, delete_exists_dir, copy)
extract_images(d, c, fs, convert_png, delete_exists_dir, copy) ==
    IF fs.out_exists /\ ~delete_exists_dir
    THEN [c |-> c, exc |-> "OutputDirectoryAlreadyExists", fs |-> fs,
          warned |-> {}, called |-> {}]
    ELSE ExtractInto(MakeOutputDir(fs), convert_png, copy, ImagePages(d, c))

(***************************************************************************)
(* XML repair.  A text is a sequence of characters.                        *)
(***************************************************************************)

\* the characters of the texts repaired: markup, a letter and a blank
XmlChars == {"<", ">", "&", ";", "a", " "}

\* the characters \w matches, among those of a text and of &amp;
WordChars == {"a", "m", "p"}

Amp == <<"&", "a", "m", "p", ";">>

\* whether \w*?; matches at position k of text
RECURSIVE EntityTail(_, _)
EntityTail(text, k) ==
    IF k > Len(text) THEN FALSE
    ELSE IF text[k] = ";" THEN TRUE
    ELSE IF text[k] \in WordChars THEN EntityTail(text, k + 1)
    ELSE FALSE

\* the mutant: every & is replaced, the lookahead is dropped
RECURSIVE ReReplaceSubAll(_, _)
ReReplaceSubAll(text, k) ==
    IF k > Len(text) THEN <<>>
    ELSE IF text[k] = "&"
    THEN Amp \o ReReplaceSubAll(text, k + 1)
    ELSE <<text[k]>> \o ReReplaceSubAll(text, k + 1)

\* re_replace.sub('&amp;', text) from position k on: &(?!\w*?;)
RECURSIVE re_replace_sub(_, _)
re_replace_sub(text, k) ==
    IF k > Len(text) THEN <<>>
    ELSE IF text[k] = "&" /\ ~EntityTail(text, k + 1)
    THEN Amp \o re_replace_sub(text, k + 1)
    ELSE <<text[k]>> \o re_replace_sub(text, k + 1)

\* the end of the match of re_entity, (>[^<]*)(&)([^<]*<), that starts at
\* position i, 0 when there is none: the first < after i, with an & before
MatchEnd(text, i) ==
    IF text[i] # ">" THEN 0
    ELSE IF \A j \in (i + 1)..Len(text) : text[j] # "<" THEN 0
    ELSE LET j == CHOOSE j \in (i + 1)..Len(text) :
                     /\ text[j] = "<"
                     /\ \A h \in (i + 1)..(j - 1) : text[h] # "<"
         IN  IF \E k \in (i + 1)..(j - 1) : text[k] = "&" THEN j ELSE 0

\* re_entity.sub(_replace, xml_source) from position i on: the leftmost
\* match is replaced and the search goes on behind it
RECURSIVE re_entity_sub(_, _)
re_entity_sub(text, i) ==
    IF i > Len(text) THEN <<>>
    ELSE IF MatchEnd(text, i) # 0
    THEN re_replace_sub(SubSeq(text, i, MatchEnd(text, i)), 1)
           \o re_entity_sub(text, MatchEnd(text, i) + 1)
    ELSE <<text[i]>> \o re_entity_sub(text, i + 1)

xml_repair(xml_source) == re_entity_sub(xml_source, 1)

\* what the XML parser makes of the character data t of an element: a
\* ParseError (ok = FALSE) at an & that does not start &amp;, the only
\* entity reference of these texts that XML defines
RECURSIVE ParseText(_)
ParseText(t) ==
    IF t = <<>> THEN [ok |-> TRUE, text |-> <<>>]
    ELSE IF Head(t) = "&"
    THEN IF Len(t) >= 5 /\ SubSeq(t, 1, 5) = Amp
         THEN LET r == ParseText(SubSeq(t, 6, Len(t)))
              IN  [ok |-> r.ok, text |-> <<"&">> \o r.text]
         ELSE [ok |-> FALSE, text |-> <<>>]
    ELSE LET r == ParseText(Tail(t))
         IN  [ok |-> r.ok, text |-> <<Head(t)>> \o r.text]

(***************************************************************************)
(* State.                                                                  *)
(***************************************************************************)
VARIABLES
    doc,         \* the extracted archive's documents: pkg, spine, ncx, nav
    temp_dir,    \* whether the session's temporary directory exists
    cache,       \* the itemrefs generator and the cached image_pages
    fs,          \* image files of the archive, and the output directory
    last,        \* the last call on the session and how it ended
    proc,        \* the command line procedure run, and how it ended
    cl_data,     \* the raw TOC entry list under cleaning
    cl_total,    \* last_page_number during that cleaning
    cl_out,      \* the cleaned list (<<>> until the cleaning ran)
    cl_again,    \* the cleaned list cleaned again (<<>> until then)
    cl_pc,       \* "raw", "cleaned" or "recleaned"
    xml_source,  \* the XML text under repair
    xml_out,     \* the repaired text (<<>> until the repair ran)
    xml_again,   \* the repaired text repaired again (<<>> until then)
    xml_pc       \* "source", "repaired" or "rerepaired"

cl_vars == <<cl_data, cl_total, cl_out, cl_again, cl_pc>>
xml_vars == <<xml_source, xml_out, xml_again, xml_pc>>
ee_vars == <<doc, temp_dir, cache, fs, last, proc>>
vars == <<doc, temp_dir, cache, fs, last, proc, cl_data, cl_total, cl_out, cl_again,
          cl_pc, xml_source, xml_out, xml_again, xml_pc>>

(***************************************************************************)
(* The cleaning algorithm on its own: every raw list up to MaxToc entries. *)
(***************************************************************************)
Titles == {"A", "B"}
TocRefsPure == {"r"}

\* start pages get_page_number_from_page_xml_path can return for a book of
\* n pages: a page number, or the default 1
StartPages(n) == (1..n) \cup {1}

RawEntries(n) ==
    [page_xml : TocRefsPure, start_page : StartPages(n), section_title : Titles]

SeqsUpTo(S, n) == UNION {[1..k -> S] : k \in 0..n}

\* what last holds before any call, and the fields a call leaves alone
NoCall ==
    [op |-> "none", exc |-> NoExc, source |-> "None", table |-> <<>>,
     number |-> 0, ref |-> NoPath, warned |-> {}, called |-> {},
     convert_png |-> FALSE, delete_exists_dir |-> FALSE, copy |-> FALSE,
     default |-> 1]

\* no procedure: the session is driven call by call
NoProc == [name |-> "none", pc |-> "start", created |-> FALSE, exc |-> NoExc]

\* the image files the manifest's pages resolve to
ArchiveImages ==
    {File("", Path("img", "a", "jpg")), File("", Path("img", "b", "png")),
     File("x", Path("..", "c", "jpg"))}

\* no text is repaired
NoRepair ==
    /\ xml_source = <<>> /\ xml_out = <<>> /\ xml_again = <<>>
    /\ xml_pc = "source"

\* no list is cleaned
NoCleaning ==
    /\ cl_data = <<>> /\ cl_total = 0 /\ cl_out = <<>> /\ cl_again = <<>>
    /\ cl_pc = "raw"

\* no session: the cleaning algorithm is run on its own
NoSession ==
    /\ doc = [pkg |-> "strict", spine |-> <<>>, ncx |-> "absent",
              navpoints |-> <<>>, nav |-> "absent", links |-> <<>>]
    /\ temp_dir = FALSE
    /\ cache = FreshCache
    /\ fs = [files |-> {}, out_exists |-> FALSE, out_files |-> {}]
    /\ last = NoCall
    /\ proc = NoProc

CleanInit ==
    /\ cl_total \in 0..MaxPages
    /\ cl_data \in SeqsUpTo(RawEntries(cl_total), MaxToc)
    /\ cl_out = <<>>
    /\ cl_again = <<>>
    /\ cl_pc = "raw"
    /\ NoSession
    /\ NoRepair

Clean ==
    /\ cl_pc = "raw"
    /\ cl_out' = CleanedData(cl_data, cl_total)
    /\ cl_pc' = "cleaned"
    /\ UNCHANGED <<cl_data, cl_total, cl_again>>
    /\ UNCHANGED <<ee_vars, xml_vars>>

CleanAgain ==
    /\ cl_pc = "cleaned"
    /\ cl_again' = CleanedData(AsRaw(cl_out), cl_total)
    /\ cl_pc' = "recleaned"
    /\ UNCHANGED <<cl_data, cl_total, cl_out>>
    /\ UNCHANGED <<ee_vars, xml_vars>>

CleanNext == Clean \/ CleanAgain

SpecClean == CleanInit /\ [][CleanNext]_vars

(***************************************************************************)
(* xml_repair on its own: every text up to MaxXml characters.              *)
(***************************************************************************)
RepairInit ==
    /\ xml_source \in SeqsUpTo(XmlChars, MaxXml)
    /\ xml_out = <<>>
    /\ xml_again = <<>>
    /\ xml_pc = "source"
    /\ NoSession
    /\ NoCleaning

Repair ==
    /\ xml_pc = "source"
    /\ xml_out' = xml_repair(xml_source)
    /\ xml_pc' = "repaired"
    /\ UNCHANGED <<xml_source, xml_again>>
    /\ UNCHANGED <<ee_vars, cl_vars>>

RepairAgain ==
    /\ xml_pc = "repaired"
    /\ xml_again' = xml_repair(xml_out)
    /\ xml_pc' = "rerepaired"
    /\ UNCHANGED <<xml_source, xml_out>>
    /\ UNCHANGED <<ee_vars, cl_vars>>

RepairNext == Repair \/ RepairAgain

SpecRepair == RepairInit /\ [][RepairNext]_vars

(***************************************************************************)
(* One session of EpubExtractor on an extracted archive.                   *)
(***************************************************************************)

\* the references a TOC entry can carry: the href of page document p1, the
\* bare file name shared by p1 (x/p.xhtml) and p0 (y/p.xhtml), and a file
\* the manifest does not hold
TocRefs ==
    {Path("x", "p", "xhtml"), Path("", "p", "xhtml"), Path("", "nope", "xhtml")}

NcxTitles == {"Chapter"}
NavTitles == {"Link"}

NavPoints ==
    [content : TocRefs, text : NcxTitles]
      \cup {[content |-> NoPath, text |-> "Chapter"],
            [content |-> Path("x", "p", "xhtml"), text |-> NoVal]}

Links == [href : TocRefs, text : NavTitles]
           \cup {[href |-> NoPath, text |-> "Link"]}

\* the NCX and the Navigation Document of an archive
NcxDocs ==
    [ncx : {"strict"}, navpoints : SeqsUpTo(NavPoints, MaxNav)]
      \cup [ncx : {"absent", "repaired", "unparsable", "missing"},
            navpoints : {<<>>}]

NavDocs ==
    [nav : {"ok"}, links : SeqsUpTo(Links, MaxNav)]
      \cup [nav : {"absent", "missing"}, links : {<<>>}]

NoNcx == [ncx |-> "absent", navpoints |-> <<>>]
NoNav == [nav |-> "absent", links |-> <<>>]
OneNavPoint ==
    [ncx |-> "strict",
     navpoints |-> <<[content |-> Path("", "p", "xhtml"), text |-> "Chapter"]>>]
OneLink ==
    [nav |-> "ok",
     links |-> <<[href |-> Path("x", "p", "xhtml"), text |-> "Link"]>>]

Doc(pkg, spine, n, v) ==
    [pkg |-> pkg, spine |-> spine, ncx |-> n.ncx, navpoints |-> n.navpoints,
     nav |-> v.nav, links |-> v.links]

\* a book of three image pages, the second a PNG
ThreePages == <<"i1", "i2", "i1">>

\* archives with every spine up to MaxSpine itemrefs and no TOC
DocsBySpine ==
    {Doc("strict", sp, NoNcx, NoNav) :
        sp \in SeqsUpTo(IdRefs, MaxSpine) \cup {ThreePages}}

\* the spines of the archives that vary the TOC: no page, three pages of
\* which two share a file name, and one with an unknown idref
TocSpines == {<<>>, <<"p1", "i2", "p0">>, <<"zz", "i1">>}

\* archives with every NCX up to MaxNav navPoints, beside no Navigation
\* Document, an empty one and one of one link
DocsByNcx ==
    {Doc("strict", sp, n, v) :
        sp \in TocSpines, n \in NcxDocs,
        v \in {NoNav, [nav |-> "ok", links |-> <<>>], OneLink}}

\* archives with every Navigation Document up to MaxNav links, beside no
\* NCX and an empty one
DocsByNav ==
    {Doc("strict", sp, n, v) :
        sp \in TocSpines, v \in NavDocs,
        n \in {NoNcx, [ncx |-> "strict", navpoints |-> <<>>]}}

\* archives whose package document is not a strictly parsed file
DocsByPkg ==
    {Doc(pkg, <<"i1">>, n, v) :
        pkg \in {"repaired", "unparsable", "notfound"},
        n \in {NoNcx, OneNavPoint}, v \in {NoNav, OneLink}}

Docs == DocsBySpine \cup DocsByNcx \cup DocsByNav \cup DocsByPkg

\* the pre-existing content of an output directory: a page of an older run
OldOutput == {OutName(9, "jpg")}

\* the session after EpubExtractor(epub_file_path): setup() has made the
\* temporary directory and unzipped the archive into it
Init ==
    /\ doc \in Docs
    /\ temp_dir = TRUE
    /\ cache = FreshCache
    /\ fs = [files |-> ArchiveImages, out_exists |-> FALSE, out_files |-> {}]
    /\ last = NoCall
    /\ proc = NoProc
    /\ NoCleaning
    /\ NoRepair

\* epub_extractor.image_pages
AccessImagePages ==
    /\ temp_dir
    /\ \E r \in {ImagePages(doc, cache)} :
       /\ cache' = r.c
       /\ last' = [NoCall EXCEPT !.op = "image_pages", !.exc = r.exc]
    /\ UNCHANGED <<doc, temp_dir, fs, proc, cl_vars, xml_vars>>

\* epub_extractor.last_page_number
AccessLastPageNumber ==
    /\ temp_dir
    /\ \E r \in {last_page_number(doc, cache)} :
       /\ cache' = r.c
       /\ last' = [NoCall EXCEPT !.op = "last_page_number", !.exc = r.exc,
                                 !.number = r.number]
    /\ UNCHANGED <<doc, temp_dir, fs, proc, cl_vars, xml_vars>>

\* the default argument: omitted (1), or one that is no page number
Defaults == {1, 0}

\* epub_extractor.get_page_number_from_page_xml_path(ref, default)
GetPageNumber ==
    /\ temp_dir
    /\ \E ref \in TocRefs, default \in Defaults :
       \E r \in {get_page_number_from_page_xml_path(doc, cache, ref,
                                                     default)} :
         /\ cache' = r.c
         /\ last' = [NoCall EXCEPT !.op = "get_page_number", !.exc = r.exc,
                                   !.number = r.number, !.ref = ref,
                                   !.default = default]
    /\ UNCHANGED <<doc, temp_dir, fs, proc, cl_vars, xml_vars>>

\* epub_extractor.get_toc_table()
GetTocTable ==
    /\ temp_dir
    /\ \E r \in {get_toc_table(doc, cache)} :
       /\ cache' = r.c
       /\ last' = [NoCall EXCEPT !.op = "get_toc_table", !.exc = r.exc,
                                 !.source = r.source, !.table = r.table]
    /\ UNCHANGED <<doc, temp_dir, fs, proc, cl_vars, xml_vars>>

\* epub_extractor.extract_images(convert_png, delete_exists_dir, copy)
ExtractImages ==
    /\ temp_dir
    /\ \E convert_png, delete_exists_dir, copy \in BOOLEAN :
       \E r \in {extract_images(doc, cache, fs, convert_png,
                                 delete_exists_dir, copy)} :
         /\ cache' = r.c
         /\ fs' = r.fs
         /\ last' = [NoCall EXCEPT !.op = "extract_images", !.exc = r.exc,
                                   !.warned = r.warned, !.called = r.called,
                                   !.convert_png = convert_png,
                                   !.delete_exists_dir = delete_exists_dir,
                                   !.copy = copy]
    /\ UNCHANGED <<doc, temp_dir, proc, cl_vars, xml_vars>>

\* epub_extractor.close(): shutil.rmtree(self.temp_dir)
Close ==
    /\ temp_dir
    /\ temp_dir' = FALSE
    /\ fs' = [fs EXCEPT !.files = {}]
    /\ last' = [NoCall EXCEPT !.op = "close"]
    /\ UNCHANGED <<doc, cache, proc, cl_vars, xml_vars>>

Next ==
    \/ AccessImagePages
    \/ AccessLastPageNumber
    \/ GetPageNumber
    \/ GetTocTable
    \/ ExtractImages
    \/ Close

Spec == Init /\ [][Next]_vars

(***************************************************************************)
(* The command line procedures: each constructs an EpubExtractor, runs one *)
(* operation on it and closes it.  An exception leaves procedure() at the  *)
(* statement that raised it, and the process ends.                         *)
(***************************************************************************)

\* the epub_file_path arguments: a book, a path that does not exist and a
\* file whose name does not end with .epub
EpubFilePaths ==
    {[exists |-> TRUE, epub |-> TRUE], [exists |-> FALSE, epub |-> TRUE],
     [exists |-> TRUE, epub |-> FALSE]}

\* what EpubExtractor(epub_file_path) raises before setup()
ConstructorExc(epub_file_path) ==
    IF ~epub_file_path.exists THEN "EpubNotFound"
    ELSE IF ~epub_file_path.epub THEN "NoEpubExtention"
    ELSE NoExc

\* epub_extractor.metadata_element
metadata_element(d) == ContentXmlRootExc(d)

\* epub_extractor.meta and meta.as_ordered_dict() on a package document
\* that has a metadata element
meta_as_ordered_dict(d, c) == [c |-> c, exc |-> metadata_element(d)]

\* how procedure(file_path) ends when its operation ended with exc: close()
\* is the statement after the operation
ProcedureEnd(name, exc) ==
    [name |-> name, pc |-> IF exc = NoExc THEN "returned" ELSE "raised",
     created |-> TRUE, exc |-> exc]

\* procedure(file_path) whose constructor raised exc: setup() was not run
ProcedureNotConstructed(name, exc) ==
    /\ proc' = [name |-> name, pc |-> "raised", created |-> FALSE, exc |-> exc]
    /\ UNCHANGED <<doc, temp_dir, cache, fs, last, cl_vars, xml_vars>>

\* a procedure was not run yet, on any archive and beside an output
\* directory that may exist
ProcInit ==
    /\ doc \in Docs
    /\ temp_dir = FALSE
    /\ cache = FreshCache
    /\ \E out_exists \in BOOLEAN :
          fs = [files |-> {}, out_exists |-> out_exists,
                out_files |-> IF out_exists THEN OldOutput ELSE {}]
    /\ last = NoCall
    /\ proc = NoProc
    /\ NoCleaning
    /\ NoRepair

\* the temporary directory after procedure() ended with exc: setup() made
\* it and unzipped the archive, close() removed it if it was reached
TempDirAfter(exc) == exc # NoExc
FilesAfter(files, exc) == IF exc = NoExc THEN {} ELSE files

\* epub_dump_meta.procedure(file_path)
ProcDumpMeta ==
    /\ proc.pc = "start"
    /\ \E file_path \in EpubFilePaths :
       IF ConstructorExc(file_path) # NoExc
       THEN ProcedureNotConstructed("dump_meta", ConstructorExc(file_path))
       ELSE \E r \in {meta_as_ordered_dict(doc, cache)} :
              /\ cache' = r.c
              /\ last' = [NoCall EXCEPT !.op = "meta", !.exc = r.exc]
              /\ temp_dir' = TempDirAfter(r.exc)
              /\ fs' = [fs EXCEPT !.files = FilesAfter(ArchiveImages, r.exc)]
              /\ proc' = ProcedureEnd("dump_meta", r.exc)
              /\ UNCHANGED <<doc, cl_vars, xml_vars>>

\* epub_dump_toc.procedure(file_path)
ProcDumpToc ==
    /\ proc.pc = "start"
    /\ \E file_path \in EpubFilePaths :
       IF ConstructorExc(file_path) # NoExc
       THEN ProcedureNotConstructed("dump_toc", ConstructorExc(file_path))
       ELSE \E r \in {get_toc_table(doc, cache)} :
              /\ cache' = r.c
              /\ last' = [NoCall EXCEPT !.op = "get_toc_table", !.exc = r.exc,
                                        !.source = r.source, !.table = r.table]
              /\ temp_dir' = TempDirAfter(r.exc)
              /\ fs' = [fs EXCEPT !.files = FilesAfter(ArchiveImages, r.exc)]
              /\ proc' = ProcedureEnd("dump_toc", r.exc)
              /\ UNCHANGED <<doc, cl_vars, xml_vars>>

\* the file system after setup() unzipped the archive
Unzipped(f) == [f EXCEPT !.files = ArchiveImages]

\* epub_extract_jpeg.procedure(file_path, convert_png, delete_exists_dir):
\* extract_images is called with its default copy=True
ProcExtractJpeg ==
    /\ proc.pc = "start"
    /\ \E file_path \in EpubFilePaths :
       IF ConstructorExc(file_path) # NoExc
       THEN ProcedureNotConstructed("extract_jpeg", ConstructorExc(file_path))
       ELSE \E convert_png, delete_exists_dir \in BOOLEAN :
            \E r \in {extract_images(doc, cache, Unzipped(fs), convert_png,
                                      delete_exists_dir, TRUE)} :
              /\ cache' = r.c
              /\ last' = [NoCall EXCEPT !.op = "extract_images",
                                        !.exc = r.exc,
                                        !.warned = r.warned,
                                        !.called = r.called,
                                        !.convert_png = convert_png,
                                        !.delete_exists_dir = delete_exists_dir,
                                        !.copy = TRUE]
              /\ temp_dir' = TempDirAfter(r.exc)
              /\ fs' = [r.fs EXCEPT !.files = FilesAfter(r.fs.files, r.exc)]
              /\ proc' = ProcedureEnd("extract_jpeg", r.exc)
              /\ UNCHANGED <<doc, cl_vars, xml_vars>>

ProcNext ==
    \/ ProcDumpMeta
    \/ ProcDumpToc
    \/ ProcExtractJpeg

SpecProc == ProcInit /\ [][ProcNext]_vars

(***************************************************************************)
(* Claims about a session.                                                 *)
(***************************************************************************)

\* a well-formed package document: the file parses as it is, and every
\* itemref of the spine has an idref that is the id of a manifest item
WellFormed(d) ==
    /\ d.pkg = "strict"
    /\ \A i \in 1..Len(d.spine) :
          d.spine[i] # NoVal /\ d.spine[i] \in DOMAIN items_dict(d)

\* the values of a dict
DictValues(dct) == {dct[j].v : j \in 1..Len(dct)}

\* whether no two pages of the list share an href
DistinctHrefs(pages) ==
    \A i, j \in 1..Len(pages) : pages[i].href = pages[j].href => i = j

\* C1 as stated: for a well-formed package document image_pages holds
\* exactly one page per spine itemref, in spine order, and the page numbers
\* of extract_images and of xml_path_page_number_dict are exactly 1..N with
\* no gap and no repeat, N the number of itemrefs.
C1_AsStated ==
    (WellFormed(doc) /\ cache.cached) =>
        /\ Len(cache.pages) = Len(doc.spine)
        /\ \A i \in 1..Len(doc.spine) :
              cache.pages[i] = items_dict(doc)[doc.spine[i]]
        /\ (last.op = "extract_images" /\ last.exc = NoExc)
             => last.called = 1..Len(doc.spine)
        /\ DictValues(xml_path_page_number_dict(cache.pages).dict)
             = 1..Len(doc.spine)

\* C1, amended: for a well-formed package document image_pages holds exactly
\* one page per spine itemref, in spine order, and enumeration numbers them
\* 1..N, N the number of itemrefs; extract_images processes 1..N, and
\* xml_path_page_number_dict maps each href to the number of the last page
\* of that href, so that its numbers are exactly 1..N when no two pages
\* share an href and a subset of 1..N otherwise.
C1_OnePagePerItemref ==
    WellFormed(doc) =>
        /\ last.op \in {"image_pages", "last_page_number", "get_page_number"}
             => last.exc = NoExc /\ cache.cached
        /\ cache.cached =>
             /\ Len(cache.pages) = Len(doc.spine)
             /\ \A i \in 1..Len(doc.spine) :
                   cache.pages[i] = items_dict(doc)[doc.spine[i]]
             /\ \A i \in 1..Len(doc.spine) :
                   /\ Enumerate(cache.pages)[i].i = i
                   /\ Enumerate(cache.pages)[i].page
                        = items_dict(doc)[doc.spine[i]]
             /\ DictValues(xml_path_page_number_dict(cache.pages).dict)
                  \subseteq 1..Len(doc.spine)
             /\ \A v \in DictValues(xml_path_page_number_dict(cache.pages).dict) :
                   DictGet(xml_path_page_number_dict(cache.pages).dict,
                           cache.pages[v].href, 0) = v
             /\ DistinctHrefs(cache.pages) =>
                   DictValues(xml_path_page_number_dict(cache.pages).dict)
                     = 1..Len(doc.spine)
        /\ (last.op = "extract_images" /\ last.exc = NoExc)
             => last.called = 1..Len(doc.spine)
        /\ (last.op = "last_page_number") => last.number = Len(doc.spine)

\* a spine of two or more itemrefs, one idref repeated, was resolved and
\* extracted
C1_Witness ==
    /\ WellFormed(doc)
    /\ cache.cached
    /\ Len(doc.spine) >= 2
    /\ doc.spine[1] = doc.spine[2]
    /\ last.op = "extract_images"
    /\ last.exc = NoExc

\* whether the parsed manifest holds an NCX item, a nav item
PkgParsed(d) == d.pkg \in {"strict", "repaired"}
HasNcxItem(d) == d.ncx # "absent"
HasNavItem(d) == d.nav # "absent"

\* a cleaned list that was computed and is empty, is not empty
IsEmptyList(r) == r.exc = NoExc /\ r.table = <<>>
IsNonEmptyList(r) == r.exc = NoExc /\ r.table # <<>>

\* the selection policy for the call that gave res, n and v the cleaned NCX
\* and Navigation Document data as the call found them
SelectionPolicy(d, n, v, res) ==
    /\ (HasNcxItem(d) /\ IsNonEmptyList(n))
         => res.exc = NoExc /\ res.source = "ncx" /\ res.table = n.table
    /\ ((~HasNcxItem(d) \/ IsEmptyList(n)) /\ HasNavItem(d) /\ IsNonEmptyList(v))
         => res.exc = NoExc /\ res.source = "nav" /\ res.table = v.table
    /\ ((~HasNcxItem(d) \/ IsEmptyList(n)) /\ (~HasNavItem(d) \/ IsEmptyList(v)))
         => res.exc = NoExc /\ res.source = "None"

\* C5: get_toc_table returns the NCX-derived cleaned ranges when an NCX item
\* exists and its cleaned list is non-empty; else the Navigation-Document-
\* derived ranges when a nav item exists and that list is non-empty; and
\* None, without raising, when neither source exists or both are empty.
C5_SelectionPolicy ==
    [][(last'.op = "get_toc_table" /\ PkgParsed(doc))
         => SelectionPolicy(doc, cleaned_toc_ncx_data(doc, cache),
                            cleaned_navigation_xml_data(doc, cache), last')]_vars

\* a declared NCX document that fails to load or parse: its file is
\* missing, it does not parse even after repair, or a navPoint lacks its
\* content or text child
NcxFailsToLoad(d) ==
    \/ d.ncx \in {"missing", "unparsable"}
    \/ /\ d.ncx = "strict"
       /\ \E i \in 1..Len(d.navpoints) :
             d.navpoints[i].content = NoPath \/ d.navpoints[i].text = NoVal

\* C6: for a package that declares an NCX item and a nav item, a declared
\* NCX document that fails to load or parse makes get_toc_table fall back to
\* the Navigation Document (its ranges, or None) instead of raising.
C6_FallsBackToNav ==
    (/\ last.op = "get_toc_table"
     /\ WellFormed(doc)
     /\ HasNavItem(doc) /\ doc.nav = "ok"
     /\ \A i \in 1..Len(doc.links) : doc.links[i].href # NoPath
     /\ NcxFailsToLoad(doc))
        => last.exc = NoExc /\ last.source \in {"nav", "None"}

\* C7: extract_images on an output directory that exists, with
\* delete_exists_dir = false, raises OutputDirectoryAlreadyExists and changes
\* nothing of the file system: the output directory and its content, the
\* temporary directory and the source images stay as they are.
C7_CollisionChangesNothing ==
    [][(last'.op = "extract_images" /\ fs.out_exists
        /\ ~last'.delete_exists_dir)
         => /\ last'.exc = "OutputDirectoryAlreadyExists"
            /\ fs' = fs
            /\ temp_dir' = temp_dir]_vars

\* the call was refused on an output directory that holds files
C7_Witness ==
    /\ last.op = "extract_images"
    /\ last.exc = "OutputDirectoryAlreadyExists"
    /\ fs.out_files # {}
    /\ fs.files # {}

\* the output files whose name is the number i
OutFilesOf(i) ==
    {f \in fs.out_files :
        /\ Len(f.num) = 5
        /\ f.num[1] * 10000 + f.num[2] * 1000 + f.num[3] * 100
             + f.num[4] * 10 + f.num[5] = i}

Largest(S) == CHOOSE x \in S : \A y \in S : y <= x

\* C8: in extract_images a page whose image resolution raises
\* InvalidImageLength is skipped with a warning and every later page is
\* still processed; any other error raised while a page is processed leaves
\* extract_images, and no later page is processed.
C8_SkipOrPropagate ==
    last.op = "extract_images" =>
        /\ last.exc # "InvalidImageLength"
        /\ last.called # {} => cache.cached
        /\ cache.cached =>
             /\ \E k \in 0..Len(cache.pages) : last.called = 1..k
             /\ last.warned
                  = {i \in last.called :
                        image_path(cache.pages[i], fs.files).exc
                          = "InvalidImageLength"}
             /\ last.exc = NoExc => last.called = 1..Len(cache.pages)
        /\ (last.exc # NoExc /\ last.called # {}) =>
             /\ Largest(last.called) \notin last.warned
             /\ OutFilesOf(Largest(last.called)) = {}
        /\ \A i \in last.called \ last.warned :
              (last.exc = NoExc \/ i < Largest(last.called))
                 => OutFilesOf(i) # {}

\* a page was skipped with a warning and a later page was written
C8_Witness ==
    /\ last.op = "extract_images"
    /\ last.exc = NoExc
    /\ \E i \in last.warned : \E j \in last.called \ last.warned :
          i < j /\ OutFilesOf(j) # {}

\* whether page i of the cached page list is a PNG
PageIsPng(i) ==
    is_png(cache.pages[i], image_path(cache.pages[i], fs.files \cup ArchiveImages).file)

C10_TempDirRemoved ==
    (proc.pc \in {"returned", "raised"} /\ proc.created) => ~temp_dir

\* the archive with the equivalent well-formed files in place of the
\* documents that parse only after repair
WellFormedFiles(d) ==
    [d EXCEPT !.pkg = IF @ = "repaired" THEN "strict" ELSE @,
              !.ncx = IF @ = "repaired" THEN "strict" ELSE @]

\* whether a structural document of the archive parses only after repair
ParsesAfterRepair(d) == d.pkg = "repaired" \/ d.ncx = "repaired"

\* C11: when the package document or the NCX fails the strict parse but its
\* repaired text parses, the document parse_xml_with_recover returns serves
\* its callers like a strictly parsed one: the page list (items_dict,
\* itemrefs) and the TOC table (toc_ncx_data) come out as for the equivalent
\* well-formed file instead of raising.
C11_RepairedAsWellFormed ==
    [][/\ (last'.op = "image_pages" /\ ParsesAfterRepair(doc))
            => /\ last'.exc = ImagePages(WellFormedFiles(doc), cache).exc
               /\ cache' = ImagePages(WellFormedFiles(doc), cache).c
       /\ (last'.op = "get_toc_table" /\ ParsesAfterRepair(doc))
            => /\ last'.exc = get_toc_table(WellFormedFiles(doc), cache).exc
               /\ last'.table = get_toc_table(WellFormedFiles(doc), cache).table
               /\ cache' = get_toc_table(WellFormedFiles(doc), cache).c]_vars

\* the numbers of the pages whose href is ref, whose href has ref's basename
PagesOfHref(pages, ref) == {i \in 1..Len(pages) : pages[i].href = ref}
PagesOfBasename(pages, ref) ==
    {i \in 1..Len(pages) : Basename(pages[i].href) = Basename(ref)}

\* C13: get_page_number_from_page_xml_path returns the number of a page
\* whose manifest href equals the reference when there is one, an exact
\* match beating a basename match; otherwise the number of a page whose
\* href has the basename of the reference when there is one; otherwise the
\* default of its caller (1 when omitted).  The number is the default or a
\* member of 1..total page count.
C13_LookupPriority ==
    (last.op = "get_page_number" /\ last.exc = NoExc) =>
        /\ cache.cached
        /\ IF PagesOfHref(cache.pages, last.ref) # {}
           THEN last.number \in PagesOfHref(cache.pages, last.ref)
           ELSE IF PagesOfBasename(cache.pages, last.ref) # {}
           THEN last.number \in PagesOfBasename(cache.pages, last.ref)
           ELSE last.number = last.default
        /\ last.number \in {last.default} \cup 1..Len(cache.pages)

\* the reference is the href of page 1 and has the basename of page 2
C13_Witness ==
    /\ last.op = "get_page_number"
    /\ last.exc = NoExc
    /\ last.default = 0
    /\ PagesOfHref(cache.pages, last.ref) = {1}
    /\ PagesOfBasename(cache.pages, last.ref) = {1, 2}
    /\ last.number = 1

\* C14: with copy = true extract_images copies and never moves: when it
\* returns, every source image of the extracted archive still exists, for
\* PNG pages converted to JPEG as for other pages.
C14_CopyKeepsSources ==
    [][(last'.op = "extract_images" /\ last'.copy /\ last'.exc = NoExc)
         => fs'.files = fs.files]_vars

\* C15: every range of a cleaned TOC satisfies
\* 1 <= start_page <= end_page <= total page count, for every raw entry
\* list and every spine, entries with an unresolvable reference and a spine
\* of zero itemrefs included.
C15_RangesWithinBook ==
    (last.op = "get_toc_table" /\ last.exc = NoExc /\ last.table # <<>>) =>
        /\ cache.cached
        /\ \A i \in 1..Len(last.table) :
              /\ 1 <= last.table[i].start_page
              /\ last.table[i].start_page <= last.table[i].end_page
              /\ last.table[i].end_page <= Len(cache.pages)

\* C16: within one session, after any sequence of accesses, a page list is
\* only observable if it holds one page per spine itemref numbered by spine
\* position: once page resolution raised IdRefNotFound or ItemNotFound at an
\* itemref, no later access returns a shorter page list built from the
\* itemrefs behind the failing one.
C16_NoShorterPageList ==
    cache.cached =>
        /\ Len(cache.pages) = Len(doc.spine)
        /\ \A i \in 1..Len(doc.spine) : cache.pages[i].id = doc.spine[i]

(***************************************************************************)
(* Claims about xml_repair.                                                *)
(***************************************************************************)

\* whether the & at position k of text lies between a > and the following
\* < and does not start an entity reference
BareAmpInText(text, k) ==
    /\ text[k] = "&"
    /\ \E i \in 1..(k - 1) :
          text[i] = ">" /\ \A h \in (i + 1)..(k - 1) : text[h] # "<"
    /\ \E j \in (k + 1)..Len(text) : text[j] = "<"
    /\ ~EntityTail(text, k + 1)

\* text with &amp; for every such & and every other character as it is
RECURSIVE AmpersandsEscaped(_, _)
AmpersandsEscaped(text, k) ==
    IF k > Len(text) THEN <<>>
    ELSE (IF BareAmpInText(text, k) THEN Amp ELSE <<text[k]>>)
           \o AmpersandsEscaped(text, k + 1)

\* the character data of a text that is one stretch > ... <
CharData(text) == SubSeq(text, 2, Len(text) - 1)

\* whether text is one stretch of character data > ... < in which no &
\* starts an entity reference
PlainCharData(text) ==
    /\ Len(text) >= 2
    /\ text[1] = ">" /\ text[Len(text)] = "<"
    /\ \A k \in 2..(Len(text) - 1) :
          /\ text[k] # "<"
          /\ text[k] = "&" => ~EntityTail(text, k + 1)

\* C12: xml_repair rewrites to &amp; every & that lies in text between a >
\* and the following < and does not start an entity reference, and changes
\* no other character; character data with such an & fails the strict parse
\* and parses after repair to the text it had; entity references stay as
\* they are, and repairing twice gives the same text as repairing once.
C12_RepairRoundTrip ==
    /\ xml_pc \in {"repaired", "rerepaired"} =>
         /\ xml_out = AmpersandsEscaped(xml_source, 1)
         /\ PlainCharData(xml_source) =>
              /\ ParseText(CharData(xml_out)).ok
              /\ ParseText(CharData(xml_out)).text = CharData(xml_source)
              /\ (\E k \in 1..Len(xml_source) : xml_source[k] = "&")
                   => ~ParseText(CharData(xml_source)).ok
    /\ xml_pc = "rerepaired" => xml_again = xml_out

\* a text with an & that is rewritten beside an entity reference that is
\* kept was repaired and repaired again
C12_Witness ==
    /\ xml_pc = "rerepaired"
    /\ xml_source = <<">", "&", "&", ";", "<">>
    /\ xml_out = <<">">> \o Amp \o <<"&", ";", "<">>

(***************************************************************************)
(* Claims about the cleaning algorithm.                                    *)
(***************************************************************************)

\* C2: the cleaned range list is sorted strictly ascending by start_page,
\* adjacent ranges satisfy end_page[i] + 1 = start_page[i+1], and the last
\* range's end_page is the total page count.
C2_Contiguous ==
    cl_pc # "raw" =>
        /\ \A i \in 1..(Len(cl_out) - 1) :
              /\ cl_out[i].start_page < cl_out[i + 1].start_page
              /\ cl_out[i].end_page + 1 = cl_out[i + 1].start_page
        /\ cl_out # <<>> => cl_out[Len(cl_out)].end_page = cl_total

\* an unsorted raw list with a repeated start page was cleaned to 2+ ranges
C2_Witness ==
    /\ cl_pc = "cleaned"
    /\ Len(cl_out) >= 2
    /\ Len(cl_data) > Len(cl_out)
    /\ \E i \in 1..(Len(cl_data) - 1) :
          cl_data[i].start_page > cl_data[i + 1].start_page

\* C3: cleaning is idempotent: cleaning the cleaned output (start_page and
\* title of each range as a raw entry, same page count) gives the same list
\* of (start_page, end_page, section_title) ranges.
C3_Idempotent ==
    cl_pc = "recleaned" => cl_again = cl_out

\* the second cleaning ran on the output of a cleaning that dropped and
\* reordered entries
C3_Witness ==
    /\ cl_pc = "recleaned"
    /\ Len(cl_out) >= 2
    /\ Len(cl_data) > Len(cl_out)
    /\ AsRaw(cl_out) # SubSeq(cl_data, 1, Len(cl_out))

\* the first entry, in document order, of the raw list with start page p
FirstWith(data, p) ==
    data[CHOOSE i \in 1..Len(data) :
            /\ data[i].start_page = p
            /\ \A j \in 1..(i - 1) : data[j].start_page # p]

\* C4: the cleaned list holds exactly one range per distinct start_page of
\* the raw list, carrying the title of the first raw entry (document order)
\* with that start_page; an empty raw list gives an empty cleaned list.
C4_FirstSeenWins ==
    cl_pc # "raw" =>
        /\ {cl_out[i].start_page : i \in 1..Len(cl_out)}
             = {cl_data[i].start_page : i \in 1..Len(cl_data)}
        /\ \A i, j \in 1..Len(cl_out) :
              cl_out[i].start_page = cl_out[j].start_page => i = j
        /\ \A i \in 1..Len(cl_out) :
              cl_out[i].section_title
                = FirstWith(cl_data, cl_out[i].start_page).section_title
        /\ cl_data = <<>> => cl_out = <<>>

\* two raw entries share a start page under different titles, the one that
\* comes first in the document is not the first of the list
C4_Witness ==
    /\ cl_pc = "cleaned"
    /\ \E i, j \in 1..Len(cl_data) :
          /\ 1 < i /\ i < j
          /\ cl_data[i].start_page = cl_data[j].start_page
          /\ cl_data[i].section_title # cl_data[j].section_title
          /\ cl_data[1].start_page > cl_data[i].start_page

====
